---- MODULE Spec2Model ----
(***************************************************************************)
(* TrackFlow provisioning (trackflow/install.py) as a state machine.       *)
(*                                                                         *)
(* The store of the host framework is the variable db: one field per       *)
(* record type the script reads or writes, each table a sequence of        *)
(* records in insertion order.  The lifecycle hooks before_install,        *)
(* after_install and after_migrate run as sequences of stage calls; one    *)
(* action models one stage function of install.py, whole.  A write to the  *)
(* store may raise: every insert/save/reload the script performs succeeds  *)
(* or fails nondeterministically, in at most MaxFaultyCalls stage calls.    *)
(***************************************************************************)
EXTENDS Integers, Sequences, FiniteSets, TLC

VARIABLES
    installed_apps, \* frappe.get_installed_apps(): set of app names
    db,             \* the record store
    db0,            \* the store as it was before the first hook ran
    error_log,      \* Error Log records written by frappe.log_error
    pc,             \* [hook, i]: the running hook and the index of its next stage
    installed,      \* the framework has completed an install of the app
    error,          \* the exception that escaped the last hook, if any
    trace,          \* stage functions entered by the current run, in call order
    last,           \* what the last stage call did
    calls,          \* per integration patcher: whether called, and called without a
                    \* store failure, never, once or more often
    ended,          \* how the last hook run ended
    pipe,           \* progress through two full pipelines run in succession
    snap,           \* the store when the first full pipeline completed
    faults,         \* stage calls in which a store operation has failed
    runs            \* hooks the framework has invoked

vars == <<installed_apps, db, db0, error_log, pc, installed, error, trace, last,
          calls, ended, pipe, snap, faults, runs>>

(***************************************************************************)
(* Bounds of the model.                                                    *)
(***************************************************************************)
MaxRuns == 4
MaxFaultyCalls == 1
MaxLinks == 2
MaxBlocks == 2

(***************************************************************************)
(* Generic helpers.                                                        *)
(***************************************************************************)
Range(s) == {s[i] : i \in 1..Len(s)}

\* Python's  needle in hay  for strings: needle occurs as a contiguous run.
OccursAt(needle, hay, i) ==
    /\ i + Len(needle) - 1 <= Len(hay)
    /\ \A k \in 1..Len(needle) : hay[i + k - 1] = needle[k]

Contains(hay, needle) == \E i \in 1..(Len(hay) + 1) : OccursAt(needle, hay, i)

Count(hay, needle) == Cardinality({i \in 1..(Len(hay) + 1) : OccursAt(needle, hay, i)})

IsPrefix(p, s) == Len(p) <= Len(s) /\ SubSeq(s, 1, Len(p)) = p

Max(a, b) == IF a >= b THEN a ELSE b

(***************************************************************************)
(* check_dependencies: names and the str.lower() it compares with.         *)
(***************************************************************************)
AppNames == {"frappe", "crm", "CRM"}

lower(app) ==
    CASE app = "CRM" -> "crm"
      [] app = "Crm" -> "crm"
      [] OTHER -> app

required_doctypes == <<"CRM Lead", "CRM Deal", "CRM Organization">>

(***************************************************************************)
(* create_roles: the two hard-coded roles.                                 *)
(***************************************************************************)
roles ==
    << [role_name |-> "TrackFlow Manager", desk_access |-> 1, two_factor_auth |-> 0,
        bulk_actions |-> 1],
       [role_name |-> "TrackFlow User", desk_access |-> 1, two_factor_auth |-> 0,
        bulk_actions |-> 0] >>

(***************************************************************************)
(* create_fcrm_custom_fields: owning types in dict order and their fields. *)
(***************************************************************************)
CF(dt, fieldname, fieldtype, insert_after) ==
    [dt |-> dt, fieldname |-> fieldname, fieldtype |-> fieldtype,
     insert_after |-> insert_after]

custom_fields ==
    << CF("CRM Lead", "trackflow_tab", "Tab Break", "notes_tab"),
       CF("CRM Lead", "trackflow_visitor_id", "Data", "trackflow_tab"),
       CF("CRM Lead", "trackflow_source", "Data", "trackflow_visitor_id"),
       CF("CRM Lead", "trackflow_medium", "Data", "trackflow_source"),
       CF("CRM Lead", "trackflow_campaign", "Link", "trackflow_medium"),
       CF("CRM Lead", "trackflow_first_touch_date", "Datetime", "trackflow_campaign"),
       CF("CRM Lead", "trackflow_last_touch_date", "Datetime", "trackflow_first_touch_date"),
       CF("CRM Lead", "trackflow_touch_count", "Int", "trackflow_last_touch_date"),
       CF("CRM Organization", "trackflow_tab", "Tab Break", "notes"),
       CF("CRM Organization", "trackflow_visitor_id", "Data", "trackflow_tab"),
       CF("CRM Organization", "trackflow_engagement_score", "Int", "trackflow_visitor_id"),
       CF("CRM Organization", "trackflow_last_campaign", "Link", "trackflow_engagement_score"),
       CF("CRM Deal", "trackflow_tab", "Tab Break", "contact_tab"),
       CF("CRM Deal", "trackflow_attribution_model", "Select", "trackflow_tab"),
       CF("CRM Deal", "trackflow_first_touch_source", "Data", "trackflow_attribution_model"),
       CF("CRM Deal", "trackflow_last_touch_source", "Data", "trackflow_first_touch_source"),
       CF("CRM Deal", "trackflow_marketing_influenced", "Check", "trackflow_last_touch_source"),
       CF("CRM Deal", "trackflow_attribution_data", "Long Text", "trackflow_marketing_influenced"),
       CF("Web Form", "trackflow_section", "Section Break", "custom_css"),
       CF("Web Form", "trackflow_tracking_enabled", "Check", "trackflow_section"),
       CF("Web Form", "trackflow_conversion_goal", "Link", "trackflow_tracking_enabled") >>

\* field_name = f"{doctype}-{field['fieldname']}"
field_name(field) == <<field.dt, "-", field.fieldname>>

(***************************************************************************)
(* create_fcrm_property_setters.                                           *)
(***************************************************************************)
PS(doc_type) ==
    [doc_type |-> doc_type, doctype_or_field |-> "DocType", property |-> "track_changes",
     value |-> "1", property_type |-> "Check"]

property_setters == << PS("CRM Lead"), PS("CRM Deal"), PS("CRM Organization") >>

\* ps_name = f"{ps['doc_type']}-main-{ps['property']}"
ps_name(ps) == <<ps.doc_type, "-main-", ps.property>>

(***************************************************************************)
(* create_trackflow_settings: the default payload.                         *)
(***************************************************************************)
default_ranges ==
    << [ip_range |-> "127.0.0.0/8", description |-> "Localhost"],
       [ip_range |-> "10.0.0.0/8", description |-> "Private Class A"],
       [ip_range |-> "172.16.0.0/12", description |-> "Private Class B"],
       [ip_range |-> "192.168.0.0/16", description |-> "Private Class C"] >>

settings_defaults ==
    [name |-> "TrackFlow Settings",
     enable_tracking |-> 1,
     auto_generate_short_codes |-> 1,
     short_code_length |-> 6,
     exclude_internal_traffic |-> 0,
     gdpr_compliance_enabled |-> 1,
     cookie_expires_days |-> 365,
     default_attribution_model |-> "Last Touch",
     attribution_window_days |-> 30,
     cookie_consent_required |-> 1,
     anonymize_ip_addresses |-> 0,
     internal_ip_ranges |-> <<>>]

(***************************************************************************)
(* setup_permissions.                                                      *)
(***************************************************************************)
possible_doctypes ==
    << "Link Campaign", "Tracked Link", "Click Event", "Attribution Model",
       "TrackFlow Settings", "Campaign Goal", "Visitor", "Visitor Event" >>

(***************************************************************************)
(* enable_tracking: text is a sequence of symbols; the marker block is the *)
(* three lines of tracking_script joined by newlines.                      *)
(***************************************************************************)
NL == "\n"

tracking_script ==
    << "<!-- TrackFlow Analytics -->", NL, "<script src=get_tracking_script async></script>",
       NL, "<!-- End TrackFlow Analytics -->" >>

(***************************************************************************)
(* setup_crm_integration.                                                  *)
(***************************************************************************)
Link(type, label, link_to) == [type |-> type, label |-> label, link_to |-> link_to]

trackflow_links ==
    << Link("Card Break", "TrackFlow Analytics", ""),
       Link("Link", "Campaigns", "Link Campaign"),
       Link("Link", "Tracked Links", "Tracked Link"),
       Link("Link", "Click Analytics", "Click Event") >>

(***************************************************************************)
(* The store interface the script consumes.                                *)
(***************************************************************************)
\* frappe.db.exists(doctype, name) on a table of named records
exists(table, name) == \E i \in 1..Len(table) : table[i].name = name

\* frappe.db.exists("DocPerm", {"parent": doctype, "role": role})
docperm_exists(table, doctype, role) ==
    \E i \in 1..Len(table) : table[i].parent = doctype /\ table[i].role = role

\* frappe.get_meta(doctype).is_submittable
is_submittable(d, doctype) ==
    \E i \in 1..Len(d.DocType) : d.DocType[i].name = doctype /\ d.DocType[i].is_submittable = 1

DocTypeDoc(name, module, istable, submittable, fields) ==
    [name |-> name, module |-> module, istable |-> istable,
     is_submittable |-> submittable, fields |-> fields]

\* frappe.log_error(message, "TrackFlow Install"), the message kept as its origin
LogEntry(method) == [title |-> "TrackFlow Install", method |-> method]

\* What one call of a stage function does: the store it leaves, the Error Log
\* records it writes, the store operations that failed in it (nf), whether an
\* exception left it (raised), the functions it called, and ret: FALSE when it
\* returned False or gave up in its except handler.
Outcome(d, log, nf, raised, ret, sub) ==
    [db |-> d, log |-> log, nf |-> nf, raised |-> raised, ret |-> ret, sub |-> sub]

(***************************************************************************)
(* check_dependencies                                                      *)
(***************************************************************************)
\* mutant: the app name compared as it is
crm_installed_case_sensitive(apps) == "crm" \in apps

crm_installed(apps) == "crm" \in {lower(app) : app \in apps}

missing_doctype(d, doctype) == ~exists(d.DocType, doctype)

\* mutant: the required types never looked up
missing_items_app_only(apps, d) ==
    IF ~crm_installed(apps) THEN << <<"Frappe CRM">> >> ELSE <<>>

missing_items(apps, d) ==
    IF ~crm_installed(apps)
    THEN << <<"Frappe CRM">> >>
    ELSE LET absent(doctype) == missing_doctype(d, doctype)
             gone == SelectSeq(required_doctypes, absent)
         IN  [i \in 1..Len(gone) |-> <<"FCRM DocType: ", gone[i]>>]

check_dependencies(apps, d) ==
    LET missing == missing_items(apps, d)
    IN  \* if missing: frappe.throw(...)
        { Outcome(d, <<>>, 0, missing # <<>>, missing = <<>>, <<>>) }

(***************************************************************************)
(* ensure_internal_ip_range_doctype                                        *)
(***************************************************************************)
ip_range_fields == <<"ip_range", "description">>

ip_range_doctype == DocTypeDoc("Internal IP Range", "TrackFlow", 1, 0, ip_range_fields)

\* f: whether store operations may fail in this call
ensure_internal_ip_range_doctype(d, f) ==
    IF exists(d.DocType, "Internal IP Range")
    THEN { Outcome(d, <<>>, 0, FALSE, TRUE, <<>>) }
    ELSE LET made == [d EXCEPT !.DocType = Append(@, ip_range_doctype)]
         IN  \* frappe.reload_doctype succeeds
             { Outcome(made, <<>>, 0, FALSE, TRUE, <<>>) }
             \* reload raises, the manual insert succeeds
             \cup (IF f THEN { Outcome(made, <<>>, 1, FALSE, TRUE, <<>>) } ELSE {})
             \* both raise: logged, False returned
             \cup (IF f
                   THEN { Outcome(d, <<LogEntry("ensure_internal_ip_range_doctype")>>,
                                  2, FALSE, FALSE, <<>>) }
                   ELSE {})

(***************************************************************************)
(* create_trackflow_settings                                               *)
(***************************************************************************)
RECURSIVE append_rows(_, _)
append_rows(doc, rows) ==
    IF rows = <<>> THEN doc
    ELSE append_rows([doc EXCEPT !.internal_ip_ranges = Append(@, Head(rows))], Tail(rows))

\* mutant: the last default range is not appended
new_settings_short == append_rows(settings_defaults, SubSeq(default_ranges, 1, 3))

new_settings == append_rows(settings_defaults, default_ranges)

settings_exists(d) == exists(d.TrackFlowSettings, "TrackFlow Settings")

\* mutant: the value ensure_internal_ip_range_doctype returns is not looked at
create_trackflow_settings_unchecked(d, f) ==
    IF settings_exists(d)
    THEN { Outcome(d, <<>>, 0, FALSE, TRUE, <<>>) }
    ELSE { Outcome([e.db EXCEPT !.TrackFlowSettings =
                       Append(@, append_rows(settings_defaults, default_ranges))],
                   e.log, e.nf, FALSE, TRUE, <<"ensure_internal_ip_range_doctype">>)
           : e \in ensure_internal_ip_range_doctype(d, f) }

create_trackflow_settings(d, f) ==
    IF settings_exists(d)
    THEN { Outcome(d, <<>>, 0, FALSE, TRUE, <<>>) }
    ELSE LET sub == <<"ensure_internal_ip_range_doctype">>
             after(e) ==
                 IF ~e.ret
                 THEN { Outcome(e.db, e.log, e.nf, FALSE, FALSE, sub) }
                 ELSE { Outcome([e.db EXCEPT !.TrackFlowSettings = Append(@, new_settings)],
                                e.log, e.nf, FALSE, TRUE, sub) }
                      \cup (IF f
                            THEN { Outcome(e.db,
                                           e.log \o <<LogEntry("create_trackflow_settings")>>,
                                           e.nf + 1, FALSE, FALSE, sub) }
                            ELSE {})
         IN  UNION { after(e) : e \in ensure_internal_ip_range_doctype(d, f) }

(***************************************************************************)
(* create_roles, create_fcrm_custom_fields, create_fcrm_property_setters:  *)
(* create-if-absent loops.  failAt is the insert that raises (0: none);    *)
(* the exception is not caught, so the inserts before it stay.             *)
(***************************************************************************)
\* mutant: update-or-insert, a record found under its key is rewritten
insert_missing_overwrite(table, docs, failAt) ==
    LET named(n) == CHOOSE i \in 1..Len(docs) : docs[i].name = n
        fresh(doc) == ~exists(table, doc.name)
    IN  [table |-> [i \in 1..Len(table) |->
                       IF exists(docs, table[i].name) THEN docs[named(table[i].name)]
                       ELSE table[i]]
                   \o SelectSeq(docs, fresh),
         raised |-> FALSE]

RECURSIVE insert_missing(_, _, _)
insert_missing(table, docs, failAt) ==
    IF docs = <<>> THEN [table |-> table, raised |-> FALSE]
    ELSE IF exists(table, Head(docs).name)
         THEN insert_missing(table, Tail(docs), failAt)
         ELSE IF failAt = 1
              THEN [table |-> table, raised |-> TRUE]
              ELSE insert_missing(Append(table, Head(docs)), Tail(docs),
                                  IF failAt = 0 THEN 0 ELSE failAt - 1)

FailPoints(n, f) == IF f THEN 0..n ELSE {0}

LoopOutcome(d, r) ==
    Outcome(d, <<>>, IF r.raised THEN 1 ELSE 0, r.raised, TRUE, <<>>)

role_doc(role_data) ==
    [name |-> role_data.role_name, role_name |-> role_data.role_name,
     desk_access |-> role_data.desk_access, two_factor_auth |-> role_data.two_factor_auth,
     bulk_actions |-> role_data.bulk_actions]

create_roles(d, f) ==
    LET docs == [i \in 1..Len(roles) |-> role_doc(roles[i])]
    IN  { LET r == insert_missing(d.Role, docs, k)
          IN  LoopOutcome([d EXCEPT !.Role = r.table], r) : k \in FailPoints(Len(docs), f) }

custom_field_doc(field) ==
    [name |-> field_name(field), dt |-> field.dt, fieldname |-> field.fieldname,
     fieldtype |-> field.fieldtype, insert_after |-> field.insert_after]

\* mutant: the owning type is not looked up
fields_to_ensure_any(d) == custom_fields

\* the fields of the owning types that exist:  if frappe.db.exists("DocType", doctype)
fields_to_ensure(d) ==
    LET present(field) == exists(d.DocType, field.dt)
    IN  SelectSeq(custom_fields, present)

create_fcrm_custom_fields(d, f) ==
    LET todo == fields_to_ensure(d)
        docs == [i \in 1..Len(todo) |-> custom_field_doc(todo[i])]
    IN  { LET r == insert_missing(d.CustomField, docs, k)
          IN  LoopOutcome([d EXCEPT !.CustomField = r.table], r) : k \in FailPoints(Len(docs), f) }

property_setter_doc(ps) ==
    [name |-> ps_name(ps), doc_type |-> ps.doc_type, doctype_or_field |-> ps.doctype_or_field,
     property |-> ps.property, value |-> ps.value, property_type |-> ps.property_type]

create_fcrm_property_setters(d, f) ==
    LET docs == [i \in 1..Len(property_setters) |-> property_setter_doc(property_setters[i])]
    IN  { LET r == insert_missing(d.PropertySetter, docs, k)
          IN  LoopOutcome([d EXCEPT !.PropertySetter = r.table], r)
          : k \in FailPoints(Len(docs), f) }

(***************************************************************************)
(* create_default_data: builds two lists and persists nothing.             *)
(***************************************************************************)
create_default_data(d) == { Outcome(d, <<>>, 0, FALSE, TRUE, <<>>) }

(***************************************************************************)
(* setup_permissions                                                       *)
(***************************************************************************)
existing_doctypes(d) ==
    LET present(dt) == exists(d.DocType, dt)
    IN  SelectSeq(possible_doctypes, present)

\* mutant: submit and cancel granted whatever the type's metadata says
new_doc_perm_submit_always(d, doctype) ==
    [parent |-> doctype, parenttype |-> "DocType", parentfield |-> "permissions",
     role |-> "TrackFlow Manager", read |-> 1, write |-> 1, create |-> 1, delete |-> 1,
     submit |-> 1, cancel |-> 1]

new_doc_perm(d, doctype) ==
    [parent |-> doctype, parenttype |-> "DocType", parentfield |-> "permissions",
     role |-> "TrackFlow Manager", read |-> 1, write |-> 1, create |-> 1, delete |-> 1,
     submit |-> IF is_submittable(d, doctype) THEN 1 ELSE 0,
     cancel |-> IF is_submittable(d, doctype) THEN 1 ELSE 0]

RECURSIVE insert_perms(_, _, _, _)
insert_perms(d, table, doctypes, failAt) ==
    IF doctypes = <<>> THEN [table |-> table, raised |-> FALSE]
    ELSE IF docperm_exists(table, Head(doctypes), "TrackFlow Manager")
         THEN insert_perms(d, table, Tail(doctypes), failAt)
         ELSE IF failAt = 1
              THEN [table |-> table, raised |-> TRUE]
              ELSE insert_perms(d, Append(table, new_doc_perm(d, Head(doctypes))),
                                Tail(doctypes), IF failAt = 0 THEN 0 ELSE failAt - 1)

setup_permissions(d, f) ==
    LET todo == existing_doctypes(d)
    IN  { LET r == insert_perms(d, d.DocPerm, todo, k)
          IN  LoopOutcome([d EXCEPT !.DocPerm = r.table], r) : k \in FailPoints(Len(todo), f) }

(***************************************************************************)
(* enable_tracking                                                         *)
(***************************************************************************)
\* if not website_settings.head_html: website_settings.head_html = ""
head_html_or_empty(ws) == IF ws.head_html_is_null THEN <<>> ELSE ws.head_html

\* mutants: the guard dropped; the guard looking for the opening comment only
needs_tracking_script_unguarded(head_html) == TRUE
needs_tracking_script_first_line(head_html) == ~Contains(head_html, <<tracking_script[1]>>)

needs_tracking_script(head_html) == ~Contains(head_html, tracking_script)

enable_tracking(d, f) ==
    LET head_html == head_html_or_empty(d.WebsiteSettings)
        saved == [d EXCEPT !.WebsiteSettings =
                     [head_html_is_null |-> FALSE,
                      head_html |-> head_html \o <<NL>> \o tracking_script]]
    IN  (IF needs_tracking_script(head_html)
         THEN { Outcome(saved, <<>>, 0, FALSE, TRUE, <<>>) }
         ELSE { Outcome(d, <<>>, 0, FALSE, TRUE, <<>>) })
        \* get_single or save raises: printed, not logged, nothing persisted
        \cup (IF f THEN { Outcome(d, <<>>, 1, FALSE, FALSE, <<>>) } ELSE {})

(***************************************************************************)
(* setup_crm_integration                                                   *)
(***************************************************************************)
\* mutant: the label scan dropped
trackflow_exists_never(links) == FALSE

trackflow_exists(links) == \E i \in 1..Len(links) : links[i].label = "TrackFlow Analytics"

RECURSIVE append_links(_, _)
append_links(links, new) ==
    IF new = <<>> THEN links ELSE append_links(Append(links, Head(new)), Tail(new))

setup_crm_integration(d, f) ==
    IF ~exists(d.Workspace, "CRM")
    THEN { Outcome(d, <<>>, 0, FALSE, TRUE, <<>>) }
    ELSE LET i == CHOOSE j \in 1..Len(d.Workspace) : d.Workspace[j].name = "CRM"
             crm_workspace == d.Workspace[i]
             saved == [d EXCEPT !.Workspace[i].links = append_links(@, trackflow_links)]
         IN  (IF ~trackflow_exists(crm_workspace.links)
              THEN { Outcome(saved, <<>>, 0, FALSE, TRUE, <<>>) }
              ELSE { Outcome(d, <<>>, 0, FALSE, TRUE, <<>>) })
             \* get_doc or save raises: logged, nothing persisted
             \cup (IF f
                   THEN { Outcome(d, <<LogEntry("setup_crm_integration")>>, 1, FALSE, FALSE,
                                  <<>>) }
                   ELSE {})

(***************************************************************************)
(* The lifecycle hooks: the stage functions each calls, in order.  The     *)
(* second definition of after_migrate is the one in effect.                *)
(***************************************************************************)
before_install == <<"check_dependencies", "create_roles">>

\* mutant: permissions set up after the tracking script
after_install_swapped ==
    <<"create_fcrm_custom_fields", "create_fcrm_property_setters", "create_default_data",
      "create_trackflow_settings", "enable_tracking", "setup_permissions">>

after_install ==
    <<"create_fcrm_custom_fields", "create_fcrm_property_setters", "create_default_data",
      "create_trackflow_settings", "setup_permissions", "enable_tracking">>

after_migrate ==
    <<"ensure_internal_ip_range_doctype", "create_fcrm_custom_fields",
      "create_trackflow_settings", "create_default_data", "setup_crm_integration">>

Stages(hook) ==
    CASE hook = "before_install" -> before_install
      [] hook = "after_install" -> after_install
      [] hook = "after_migrate" -> after_migrate
      [] OTHER -> <<>>

Idle == [hook |-> "idle", i |-> 0]
NoError == [type |-> "none", missing |-> <<>>]

\* the stage function the running hook calls next
AtStage(name) == pc.hook # "idle" /\ Stages(pc.hook)[pc.i] = name

(***************************************************************************)
(* Stores the script may be run against.                                   *)
(***************************************************************************)
HostDocTypes == <<"CRM Lead", "CRM Deal", "CRM Organization", "Web Form">>

\* a table of DocType records for the names in S, none from TrackFlow's own sync
DocTypeTable(names, S, submittable) ==
    LET keep(n) == n \in S
        kept == SelectSeq(names, keep)
    IN  [i \in 1..Len(kept) |->
            DocTypeDoc(kept[i], "Host", 0, IF kept[i] \in submittable THEN 1 ELSE 0, <<>>)]

\* TrackFlow's own types the framework may have synced before the hooks run
OwnDocTypes == <<"Internal IP Range", "Link Campaign", "TrackFlow Settings">>

\* records some earlier hand or version left under the keys the script uses,
\* with values that differ from the hard-coded ones
ForeignRole ==
    [name |-> "TrackFlow Manager", role_name |-> "TrackFlow Manager", desk_access |-> 0,
     two_factor_auth |-> 1, bulk_actions |-> 0]

ForeignCustomField ==
    [name |-> <<"CRM Lead", "-", "trackflow_source">>, dt |-> "CRM Lead",
     fieldname |-> "trackflow_source", fieldtype |-> "Small Text", insert_after |-> "email"]

ForeignPropertySetter ==
    [name |-> <<"CRM Deal", "-main-", "track_changes">>, doc_type |-> "CRM Deal",
     doctype_or_field |-> "DocType", property |-> "track_changes", value |-> "0",
     property_type |-> "Check"]

ForeignSettings ==
    [settings_defaults EXCEPT !.short_code_length = 8, !.cookie_expires_days = 30,
                              !.enable_tracking = 0]

ForeignDocPerm ==
    [parent |-> "Link Campaign", parenttype |-> "DocType", parentfield |-> "permissions",
     role |-> "TrackFlow Manager", read |-> 1, write |-> 0, create |-> 0, delete |-> 0,
     submit |-> 0, cancel |-> 0]

Optional(doc) == { <<>>, <<doc>> }

\* sequences of at most n elements of S
RECURSIVE SeqsUpTo(_, _)
SeqsUpTo(S, n) ==
    IF n = 0 THEN { <<>> }
    ELSE LET shorter == SeqsUpTo(S, n - 1)
         IN  shorter \cup { Append(s, x) : s \in shorter, x \in S }

RECURSIVE Flatten(_)
Flatten(ss) == IF ss = <<>> THEN <<>> ELSE Head(ss) \o Flatten(Tail(ss))

\* head_html values: unset, or up to MaxBlocks blocks of other markup, of the
\* marker block, or of a marker block cut short
HtmlBlocks == { <<"<meta>">>, tracking_script, SubSeq(tracking_script, 1, 3) }

HeadHtmlInputs ==
    { [head_html_is_null |-> TRUE, head_html |-> <<>>] }
    \cup { [head_html_is_null |-> FALSE, head_html |-> Flatten(bs)]
           : bs \in SeqsUpTo(HtmlBlocks, MaxBlocks) }

\* CRM workspace: absent, or with up to MaxLinks links
LinkInputs ==
    { Link("Link", "Campaigns", "Campaign"), Link("Card Break", "TrackFlow Analytics", "") }

WorkspaceInputs ==
    { <<>> } \cup { << [name |-> "CRM", links |-> ls] >> : ls \in SeqsUpTo(LinkInputs, MaxLinks) }

Store(doctypes, role, cf, ps, settings, perms, ws, workspace) ==
    [DocType |-> doctypes, Role |-> role, CustomField |-> cf, PropertySetter |-> ps,
     TrackFlowSettings |-> settings, DocPerm |-> perms, WebsiteSettings |-> ws,
     Workspace |-> workspace]

AllHost == Range(HostDocTypes)
UnsetHtml == [head_html_is_null |-> TRUE, head_html |-> <<>>]
PlainWorkspace == << [name |-> "CRM", links |-> << Link("Link", "Leads", "CRM Lead") >>] >>

\* any combination of installed apps and host types, on an otherwise fresh store
HostStores ==
    { [apps |-> apps,
       db |-> Store(DocTypeTable(HostDocTypes \o OwnDocTypes, host \cup own, {}),
                    <<>>, <<>>, <<>>, <<>>, <<>>, UnsetHtml, PlainWorkspace)]
      : apps \in SUBSET AppNames, host \in SUBSET AllHost,
        own \in { {}, Range(OwnDocTypes) } }

\* a complete host, with any of TrackFlow's own types, with or without earlier
\* records under the script's keys, with or without an earlier settings record
RecordStores ==
    { [apps |-> {"frappe", "crm"},
       db |-> Store(DocTypeTable(HostDocTypes \o OwnDocTypes, AllHost \cup own, sub),
                    earlier[1], earlier[2], earlier[3], settings, earlier[4],
                    UnsetHtml, PlainWorkspace)]
      : own \in SUBSET Range(OwnDocTypes), sub \in SUBSET {"Link Campaign"},
        earlier \in { <<<<>>, <<>>, <<>>, <<>>>>,
                      << <<ForeignRole>>, <<ForeignCustomField>>, <<ForeignPropertySetter>>,
                         <<ForeignDocPerm>> >> },
        settings \in Optional(ForeignSettings) }

\* a complete host, with any head_html or any CRM workspace
PatchStores ==
    { [apps |-> {"frappe", "CRM"},
       db |-> Store(DocTypeTable(HostDocTypes \o OwnDocTypes, AllHost \cup Range(OwnDocTypes), {}),
                    <<>>, <<>>, <<>>, <<>>, <<>>, p[1], p[2])]
      : p \in (HeadHtmlInputs \X {PlainWorkspace}) \cup ({UnsetHtml} \X WorkspaceInputs) }

InitialCalls == [f \in {"enable_tracking", "setup_crm_integration"} |-> [n |-> 0, clean |-> 0]]

NoCall == [stage |-> "none", nf |-> 0, logged |-> 0, raised |-> FALSE, ret |-> TRUE]

Init ==
    /\ \E s \in HostStores \cup RecordStores \cup PatchStores :
          /\ installed_apps = s.apps
          /\ db = s.db
          /\ db0 = s.db
          /\ snap = s.db
    /\ error_log = <<>>
    /\ pc = Idle
    /\ installed = FALSE
    /\ error = NoError
    /\ trace = <<>>
    /\ last = NoCall
    /\ calls = InitialCalls
    /\ ended = "none"
    /\ pipe = <<>>
    /\ faults = 0
    /\ runs = 0

(***************************************************************************)
(* The framework invoking the hooks.                                       *)
(***************************************************************************)
\* The framework installs the app: it calls before_install and, when that
\* returned, after_install.  An exception out of either hook ends the run and
\* leaves the app uninstalled.
Install ==
    /\ pc = Idle
    /\ runs < MaxRuns
    /\ pc' = [hook |-> "before_install", i |-> 1]
    /\ runs' = runs + 1
    /\ trace' = <<>>
    /\ error' = NoError
    /\ last' = NoCall
    /\ UNCHANGED <<installed_apps, db, db0, error_log, installed, calls, ended, pipe, snap,
                   faults>>

\* The framework migrates the site: it calls after_migrate of installed apps.
Migrate ==
    /\ pc = Idle
    /\ installed
    /\ runs < MaxRuns
    /\ pc' = [hook |-> "after_migrate", i |-> 1]
    /\ runs' = runs + 1
    /\ trace' = <<>>
    /\ error' = NoError
    /\ last' = NoCall
    /\ UNCHANGED <<installed_apps, db, db0, error_log, installed, calls, ended, pipe, snap,
                   faults>>

HookName(hook) == IF hook = "after_migrate" THEN "migrate" ELSE "install"

\* the full pipeline, twice in succession
PipelineTwiceOver == <<"install", "migrate", "install", "migrate">>

\* progress through PipelineTwiceOver once a hook run ended with event e; any
\* other course of events is off that track
Track(p, e) ==
    IF p # <<"other">> /\ Len(p) < Len(PipelineTwiceOver) /\ PipelineTwiceOver[Len(p) + 1] = e
    THEN Append(p, e)
    ELSE <<"other">>

Once(n) == IF n = 0 THEN 1 ELSE 2

\* where control goes when the stage call ends: an exception leaves the hook,
\* a return goes on to the next stage, and after the last stage the hook ends
Return(name, o) ==
    LET lastStage == pc.i = Len(Stages(pc.hook))
        over == ~o.raised /\ lastStage /\ pc.hook # "before_install"
        event == IF o.raised THEN "aborted" ELSE HookName(pc.hook)
        pipe2 == IF o.raised \/ over THEN Track(pipe, event) ELSE pipe
    IN  /\ pc' = IF o.raised \/ over THEN Idle
                 ELSE IF lastStage THEN [hook |-> "after_install", i |-> 1]
                 ELSE [pc EXCEPT !.i = @ + 1]
        /\ error' = IF ~o.raised THEN error
                    ELSE IF name = "check_dependencies"
                         THEN [type |-> "ValidationError",
                               missing |-> missing_items(installed_apps, db)]
                         ELSE [type |-> "StoreError", missing |-> <<>>]
        /\ installed' = (installed \/ (over /\ pc.hook = "after_install"))
        /\ ended' = IF o.raised \/ over THEN event ELSE ended
        /\ pipe' = pipe2
        /\ snap' = IF pipe2 = <<"other">> THEN db0
                   ELSE IF pipe2 = SubSeq(PipelineTwiceOver, 1, 2) /\ pipe # pipe2 THEN o.db
                   ELSE snap

\* one call of stage function name by the running hook, with outcome o
Call(name, o) ==
    /\ db' = o.db
    /\ error_log' = error_log \o o.log
    /\ faults' = faults + IF o.nf > 0 THEN 1 ELSE 0
    /\ trace' = trace \o <<name>> \o o.sub
    /\ last' = [stage |-> name, nf |-> o.nf, logged |-> Len(o.log),
                raised |-> o.raised, ret |-> o.ret]
    /\ calls' = IF name \in DOMAIN calls
                THEN [calls EXCEPT ![name] =
                         [n |-> Once(@.n), clean |-> IF o.nf = 0 THEN Once(@.clean) ELSE @.clean]]
                ELSE calls
    /\ Return(name, o)
    /\ UNCHANGED <<installed_apps, db0, runs>>

\* store operations may fail in the next stage call
MayFail == faults < MaxFaultyCalls

CheckDependencies ==
    /\ AtStage("check_dependencies")
    /\ \E o \in check_dependencies(installed_apps, db) : Call("check_dependencies", o)

CreateRoles ==
    /\ AtStage("create_roles")
    /\ \E o \in create_roles(db, MayFail) : Call("create_roles", o)

CreateFcrmCustomFields ==
    /\ AtStage("create_fcrm_custom_fields")
    /\ \E o \in create_fcrm_custom_fields(db, MayFail) : Call("create_fcrm_custom_fields", o)

CreateFcrmPropertySetters ==
    /\ AtStage("create_fcrm_property_setters")
    /\ \E o \in create_fcrm_property_setters(db, MayFail) :
          Call("create_fcrm_property_setters", o)

CreateDefaultData ==
    /\ AtStage("create_default_data")
    /\ \E o \in create_default_data(db) : Call("create_default_data", o)

EnsureInternalIpRangeDoctype ==
    /\ AtStage("ensure_internal_ip_range_doctype")
    /\ \E o \in ensure_internal_ip_range_doctype(db, MayFail) :
          Call("ensure_internal_ip_range_doctype", o)

CreateTrackflowSettings ==
    /\ AtStage("create_trackflow_settings")
    /\ \E o \in create_trackflow_settings(db, MayFail) : Call("create_trackflow_settings", o)

SetupPermissions ==
    /\ AtStage("setup_permissions")
    /\ \E o \in setup_permissions(db, MayFail) : Call("setup_permissions", o)

EnableTracking ==
    /\ AtStage("enable_tracking")
    /\ \E o \in enable_tracking(db, MayFail) : Call("enable_tracking", o)

SetupCrmIntegration ==
    /\ AtStage("setup_crm_integration")
    /\ \E o \in setup_crm_integration(db, MayFail) : Call("setup_crm_integration", o)

Next ==
    \/ Install
    \/ Migrate
    \/ CheckDependencies
    \/ CreateRoles
    \/ CreateFcrmCustomFields
    \/ CreateFcrmPropertySetters
    \/ CreateDefaultData
    \/ EnsureInternalIpRangeDoctype
    \/ CreateTrackflowSettings
    \/ SetupPermissions
    \/ EnableTracking
    \/ SetupCrmIntegration

Spec == Init /\ [][Next]_vars

(***************************************************************************)
(* Properties.                                                             *)
(***************************************************************************)
HostAppPresent == \E app \in installed_apps : lower(app) = "crm"

AbsentRequired ==
    { dt \in Range(required_doctypes) : ~\E i \in 1..Len(db0.DocType) : db0.DocType[i].name = dt }

PreconditionMet == HostAppPresent /\ AbsentRequired = {}

Created(field) == { db[field][i] : i \in 1..Len(db[field]) } \ Range(db0[field])

TypePresent(dt) == \E i \in 1..Len(db0.DocType) : db0.DocType[i].name = dt

\* C1: with no store operation failing, the full pipeline (install, then migrate)
\* run a second time leaves the store exactly as the first run left it.
PipelineTwice == pipe = PipelineTwiceOver

C1_Idempotent == (PipelineTwice /\ faults = 0) => db = snap

C1_Witness ==
    /\ PipelineTwice /\ faults = 0
    /\ db # db0
    /\ Len(db.Role) = 2 /\ Len(db.TrackFlowSettings) = 1
    /\ Count(db.WebsiteSettings.head_html, tracking_script) = 1

\* C2: when the host app or a required type is missing, the run stops at the
\* precondition check: no stage but the check is ever entered, the check raises,
\* and the store holds exactly what it held before.
C2_FailFast ==
    ~PreconditionMet =>
        /\ db = db0
        /\ error_log = <<>>
        /\ ~installed
        /\ trace \in { <<>>, <<"check_dependencies">> }
        /\ pc \in { Idle, [hook |-> "before_install", i |-> 1] }
        /\ (last.stage = "check_dependencies" =>
               last.raised /\ error.type = "ValidationError" /\ pc = Idle)

C2_Witness ==
    /\ ~PreconditionMet
    /\ last.stage = "check_dependencies" /\ error.type = "ValidationError"
    /\ pc = Idle /\ db = db0

\* C3 as stated: check_dependencies returns exactly when everything is present,
\* and otherwise its one error lists every missing item, the host app and each
\* absent required type.
EveryMissingItem ==
    (IF HostAppPresent THEN {} ELSE { <<"Frappe CRM">> })
    \cup { <<"FCRM DocType: ", dt>> : dt \in AbsentRequired }

C3_Original ==
    last.stage = "check_dependencies" =>
        /\ (~last.raised) <=> PreconditionMet
        /\ last.raised => Range(error.missing) = EveryMissingItem

\* C3 as amended: check_dependencies returns exactly when everything is present;
\* otherwise its one error lists the host app alone when the host app is absent
\* (the required types are then not looked up), and each absent required type,
\* once, when the host app is installed.
C3_Amended ==
    last.stage = "check_dependencies" =>
        /\ (~last.raised) <=> PreconditionMet
        /\ ~last.raised => error = NoError
        /\ last.raised =>
              /\ error.type = "ValidationError"
              /\ Range(error.missing) =
                    IF HostAppPresent
                    THEN { <<"FCRM DocType: ", dt>> : dt \in AbsentRequired }
                    ELSE { <<"Frappe CRM">> }
              /\ Len(error.missing) = Cardinality(Range(error.missing))

C3_Witness ==
    /\ last.stage = "check_dependencies" /\ last.raised
    /\ ~HostAppPresent /\ AbsentRequired # {}
    /\ error.missing = << <<"Frappe CRM">> >>

\* C4: when ensure_internal_ip_range_doctype fails inside create_trackflow_settings,
\* no settings record is created, the call returns and the hook goes on to its next
\* stage; a settings record is only ever created where Internal IP Range exists.
EnsureFailedInSettings ==
    /\ last.stage = "create_trackflow_settings"
    /\ last.logged >= 1
    /\ error_log[Len(error_log)].method = "ensure_internal_ip_range_doctype"

C4_SettingsNeedSchema ==
    /\ EnsureFailedInSettings =>
          /\ ~settings_exists(db)
          /\ ~exists(db.DocType, "Internal IP Range")
          /\ ~last.raised /\ error = NoError
          /\ pc.hook \in {"after_install", "after_migrate"}
          /\ Stages(pc.hook)[pc.i - 1] = "create_trackflow_settings"
    /\ Created("TrackFlowSettings") # {} => exists(db.DocType, "Internal IP Range")

C4_Witness ==
    /\ EnsureFailedInSettings
    /\ ~settings_exists(db)
    /\ pc.hook = "after_install"

Injected(head_html) == Count(head_html, tracking_script)

HeadHtml0 == head_html_or_empty(db0.WebsiteSettings)

\* the marker block occurs max(1, initial count) times, after the original text
\* and, where it was added, after a newline
TrackingScriptInPlace ==
    LET now == db.WebsiteSettings.head_html
    IN  /\ ~db.WebsiteSettings.head_html_is_null
        /\ Injected(now) = Max(1, Injected(HeadHtml0))
        /\ IsPrefix(HeadHtml0, now)
        /\ IF Injected(HeadHtml0) = 0
           THEN /\ Len(now) = Len(HeadHtml0) + 1 + Len(tracking_script)
                /\ now[Len(HeadHtml0) + 1] = NL
                /\ OccursAt(tracking_script, now, Len(HeadHtml0) + 2)
           ELSE now = HeadHtml0

Links0 == IF db0.Workspace = <<>> THEN <<>> ELSE db0.Workspace[1].links

HasAnalyticsLabel(links) == \E i \in 1..Len(links) : links[i].label = "TrackFlow Analytics"

\* the initial links, then the section header and the three links, in order
LinksInPlace ==
    LET now == db.Workspace[1].links
        n == Len(Links0)
    IN  /\ Len(now) = n + 4
        /\ SubSeq(now, 1, n) = Links0
        /\ [i \in 1..4 |-> now[n + i].label] =
              <<"TrackFlow Analytics", "Campaigns", "Tracked Links", "Click Analytics">>
        /\ [i \in 1..4 |-> now[n + i].type] = <<"Card Break", "Link", "Link", "Link">>
        /\ [i \in 1..4 |-> now[n + i].link_to] =
              <<"", "Link Campaign", "Tracked Link", "Click Event">>

WorkspacePatchable == db0.Workspace # <<>> /\ ~HasAnalyticsLabel(Links0)

BestEffortStages ==
    {"ensure_internal_ip_range_doctype", "create_trackflow_settings", "enable_tracking",
     "setup_crm_integration"}

C8_AlwaysLogged ==
    (last.stage \in BestEffortStages /\ last.nf > 0 /\ ~last.ret) =>
        /\ ~last.raised /\ error = NoError
        /\ last.logged >= 1
        /\ error_log[Len(error_log)].title = "TrackFlow Install"

\* C9: a settings record the script creates is the only one and carries the whole
\* default payload: the four ranges in order and the scalar defaults.
C9_DefaultPayload ==
    Created("TrackFlowSettings") # {} =>
        /\ Len(db.TrackFlowSettings) = 1
        /\ LET s == db.TrackFlowSettings[1]
           IN  /\ [i \in 1..Len(s.internal_ip_ranges) |-> s.internal_ip_ranges[i].ip_range] =
                     <<"127.0.0.0/8", "10.0.0.0/8", "172.16.0.0/12", "192.168.0.0/16">>
               /\ s.short_code_length = 6
               /\ s.cookie_expires_days = 365
               /\ s.default_attribution_model = "Last Touch"
               /\ s.attribution_window_days = 30
               /\ s.cookie_consent_required = 1
               /\ s.anonymize_ip_addresses = 0

C9_Witness ==
    /\ last.stage = "create_trackflow_settings"
    /\ Created("TrackFlowSettings") # {}
    /\ Len(db.TrackFlowSettings[1].internal_ip_ranges) = 4

\* a whole install run has just ended: before_install and after_install returned
InstallComplete == pc = Idle /\ ended = "install"

\* C10 as stated: a complete install run enters nine stages, once each, in the
\* order check, schema, roles, custom fields, property setters, settings,
\* permissions, tracking script, workspace links.
C10_Original ==
    InstallComplete =>
        trace = <<"check_dependencies", "ensure_internal_ip_range_doctype", "create_roles",
                  "create_fcrm_custom_fields", "create_fcrm_property_setters",
                  "create_trackflow_settings", "setup_permissions", "enable_tracking",
                  "setup_crm_integration">>

\* C10 as amended: a complete install run enters, once each and in this order,
\* check, roles, custom fields, property setters, default data, settings,
\* permissions, tracking script; the schema bootstrap is entered from inside the
\* settings stage, and only when no settings record exists; the workspace links
\* are not part of an install run.
C10_Amended ==
    InstallComplete =>
        /\ \E schema \in { <<>>, <<"ensure_internal_ip_range_doctype">> } :
              trace = <<"check_dependencies", "create_roles", "create_fcrm_custom_fields",
                        "create_fcrm_property_setters", "create_default_data",
                        "create_trackflow_settings">> \o schema
                      \o <<"setup_permissions", "enable_tracking">>
        /\ "ensure_internal_ip_range_doctype" \notin Range(trace) => settings_exists(db)
        /\ "setup_crm_integration" \notin Range(trace)

C10_Witness ==
    /\ InstallComplete
    /\ Len(trace) = 9
    /\ trace[7] = "ensure_internal_ip_range_doctype"

\* the tables whose records are created when absent and never written again
KeptTables == {"DocType", "Role", "CustomField", "PropertySetter", "TrackFlowSettings", "DocPerm"}

\* C11: no step of any hook changes or removes a record that is in the store
\* under its key, whatever its field values: every Role, Custom Field, Property
\* Setter, DocPerm, TrackFlow Settings record and record type stays as it was;
\* Website Settings head_html and the link list of each workspace only grow at
\* the end, and nothing else of a workspace changes.
C11_NeverUpdate ==
    [][ /\ \A t \in KeptTables : IsPrefix(db[t], db'[t])
        /\ IsPrefix(head_html_or_empty(db.WebsiteSettings),
                    head_html_or_empty(db'.WebsiteSettings))
        /\ Len(db'.Workspace) = Len(db.Workspace)
        /\ \A i \in 1..Len(db.Workspace) :
              /\ IsPrefix(db.Workspace[i].links, db'.Workspace[i].links)
              /\ [db'.Workspace[i] EXCEPT !.links = <<>>] =
                    [db.Workspace[i] EXCEPT !.links = <<>>] ]_vars

\* install and migrate have completed on a store that held a role, a custom
\* field, a property setter, a permission rule, a settings record and an Internal
\* IP Range type with values of its own: all are as they were, among new records
C11_Witness ==
    /\ pc = Idle /\ ended = "migrate" /\ faults = 0
    /\ db0.Role = <<ForeignRole>> /\ db0.TrackFlowSettings = <<ForeignSettings>>
    /\ \E i \in 1..Len(db0.DocType) :
          /\ db0.DocType[i].name = "Internal IP Range"
          /\ db0.DocType[i] # ip_range_doctype
          /\ db.DocType[i] = db0.DocType[i]
    /\ Len(db.Role) = 2 /\ db.Role[1] = ForeignRole
    /\ Len(db.CustomField) = 21 /\ db.CustomField[1] = ForeignCustomField
    /\ Len(db.PropertySetter) = 3 /\ db.PropertySetter[1] = ForeignPropertySetter
    /\ db.DocPerm[1] = ForeignDocPerm
    /\ db.TrackFlowSettings = <<ForeignSettings>>
    /\ Injected(db.WebsiteSettings.head_html) = 1
    /\ Len(db.Workspace[1].links) = Len(Links0) + 4

\* the roles setup_permissions grants rules to
ManagerRoles == {"TrackFlow Manager"}

RulesFor(table, doctype, role) ==
    { i \in 1..Len(table) : table[i].parent = doctype /\ table[i].role = role }

====
